---- MODULE Spec2Model ----
(***************************************************************************)
(* GC root registration of lorri (src/project/roots.rs).                   *)
(*                                                                         *)
(* The file system is a function from the paths that exist to their nodes  *)
(* (a directory or a symbolic link).  A path is a sequence of components.  *)
(* Roots::create_roots is a sequence of system calls; each system call is  *)
(* one atomic step of a call, so that calls of different threads or        *)
(* processes interleave between system calls.                              *)
(***************************************************************************)
EXTENDS Naturals, Sequences, FiniteSets, TLC

(***************************************************************************)
(* Bounds                                                                  *)
(***************************************************************************)
\* number of distinct store outputs a build can hand to create_roots
NumTargets == 2
\* number of resolution hops Path::exists follows before giving up (ELOOP)
MaxHops == 3

(***************************************************************************)
(* Paths                                                                   *)
(***************************************************************************)
TargetNames == <<"xxxx-env", "yyyy-env", "zzzz-env", "wwww-env">>
\* the store outputs (RootedPath.path)
Targets == {<<"store", TargetNames[i]>> : i \in 1..NumTargets}

\* Roots values, as Roots::from_project builds them, one per project
RootsOf(id) == [gc_root_path |-> <<"cache", id>>, project_id |-> id]
ProjectIds == {"ab12", "cd34"}
AllRoots == {RootsOf(id) : id \in ProjectIds}

\* the threads/processes that call create_roots
Calls == {"A", "B"}

NoPath == <<>>
join(p, name) == Append(p, name)
Parent(p) == SubSeq(p, 1, Len(p) - 1)
Prefixes(p) == {SubSeq(p, 1, n) : n \in 1..Len(p)}

\* a place a link may point at that is none of the paths of this program
Elsewhere == <<"elsewhere">>

\* env::var: the value of an unset variable (env::var returns Err)
Unset == ""
UserName == "u"
\* PathBuf::from("/nix/var/nix/")
DefaultStateDir == <<"nix", "var", "nix">>
\* a value of NIX_STATE_DIR, as a path
CustomStateDir == <<"custom", "state">>

(***************************************************************************)
(* File system nodes and system calls                                      *)
(***************************************************************************)
Dir == [kind |-> "dir", to |-> NoPath]
Link(to) == [kind |-> "link", to |-> to]

Exists(f, p) == p \in DOMAIN f
IsLink(f, p) == Exists(f, p) /\ f[p].kind = "link"

\* the node a path resolves to, following symbolic links: NoPath if the
\* chain dangles or is longer than n hops
RECURSIVE Resolve(_, _, _)
Resolve(f, p, n) ==
    IF ~Exists(f, p) THEN NoPath
    ELSE IF f[p].kind # "link" THEN p
    ELSE IF n = 0 THEN NoPath
    ELSE Resolve(f, f[p].to, n - 1)

\* Path::exists: follows symbolic links, a stat error is non-existence
PathExists(f, p) == Resolve(f, p, MaxHops) # NoPath
\* Path::is_dir
PathIsDir(f, p) ==
    LET q == Resolve(f, p, MaxHops) IN q # NoPath /\ f[q].kind = "dir"

Without(f, p) == [q \in (DOMAIN f) \ {p} |-> f[q]]
With(f, p, node) == [q \in (DOMAIN f) \cup {p} |-> IF q = p THEN node ELSE f[q]]

\* outcome of a system call: the io::ErrorKind ("" for success) and the
\* file system it leaves
Outcome(kind, f) == [kind |-> kind, fs |-> f]

\* a removal that follows the link and also removes what it points at
remove_file_follow(f, p) ==
    IF ~Exists(f, p) THEN Outcome("NotFound", f)
    ELSE IF f[p].kind = "dir" THEN Outcome("IsADirectory", f)
    ELSE Outcome("", Without(Without(f, p), f[p].to))

\* an unlink that reports success and removes nothing
remove_file_keep(f, p) == Outcome("", f)

\* std::fs::remove_file (unlink)
remove_file(f, p) ==
    IF ~Exists(f, p) THEN Outcome("NotFound", f)
    ELSE IF f[p].kind = "dir" THEN Outcome("IsADirectory", f)
    ELSE Outcome("", Without(f, p))

\* std::os::unix::fs::symlink(src, dst): creates dst pointing at src
symlink(f, src, dst) ==
    IF Exists(f, dst) THEN Outcome("AlreadyExists", f)
    ELSE IF ~PathIsDir(f, Parent(dst)) THEN Outcome("NotFound", f)
    ELSE Outcome("", With(f, dst, Link(src)))

\* std::fs::create_dir_all: creates the directory and its missing parents
create_dir_all(f, p) ==
    IF \E q \in Prefixes(p) : Exists(f, q) /\ ~PathIsDir(f, q)
    THEN Outcome("NotADirectory", f)
    ELSE Outcome("", [q \in (DOMAIN f) \cup Prefixes(p) |->
                         IF q \in DOMAIN f THEN f[q] ELSE Dir])

\* a system call that the operating system refuses (EACCES): nothing changes
denied(f) == Outcome("PermissionDenied", f)

(***************************************************************************)
(* Results and errors                                                      *)
(***************************************************************************)
NoMsg == [op |-> "", paths |-> <<>>]
NoResult == [tag |-> "None", out |-> NoPath, msg |-> NoMsg, source |-> ""]
\* Ok(OutputPath { shell_gc_root: RootPath(p) })
OkResult(p) == [tag |-> "Ok", out |-> p, msg |-> NoMsg, source |-> ""]
\* Err(AddRootError { source, msg })
ErrResult(source, msg) == [tag |-> "Err", out |-> NoPath, msg |-> msg, source |-> source]
\* a panic of the calling thread
PanicResult(text) ==
    [tag |-> "Panic", out |-> NoPath, msg |-> [op |-> text, paths |-> <<>>], source |-> ""]

\* AddRootError::remove that returns Ok for every error
AddRootError_remove_lenient(source, path) == NoResult

\* AddRootError::remove without the NotFound case
AddRootError_remove_strict(source, path) ==
    ErrResult(source, [op |-> "Failed to delete", paths |-> <<path>>])

\* AddRootError::remove: NotFound is ignored, any other error is returned
AddRootError_remove(source, path) ==
    IF source = "NotFound"
    THEN NoResult
    ELSE ErrResult(source, [op |-> "Failed to delete", paths |-> <<path>>])

\* AddRootError::symlink
AddRootError_symlink(source, src, dest) ==
    ErrResult(source, [op |-> "Failed to symlink", paths |-> <<src, dest>>])

(***************************************************************************)
(* Roots                                                                   *)
(***************************************************************************)
\* shell_gc_root that does not join onto the project's gc_root_path
shell_gc_root_shared(self) == join(<<"cache">>, "shell_gc_root")

\* Roots::shell_gc_root
shell_gc_root(self) == join(self.gc_root_path, "shell_gc_root")

\* paths that forgets to join "shell_gc_root"
paths_noJoin(self) == self.gc_root_path

\* Roots::paths
paths(self) == OkResult(shell_gc_root(self)).out

\* all_exist that looks at the directory of the root
all_exist_parent(f, out) == PathExists(f, Parent(out))

\* all_exist by symlink_metadata: the link itself is looked at, not its target
all_exist_nofollow(f, out) == Exists(f, out)

\* OutputPath<RootPath>::all_exist
all_exist(f, out) == PathExists(f, out)

\* a per-user directory that is always under the default state directory
UserDir_noOverride(state_dir, user) ==
    join(join(join(DefaultStateDir, "gcroots"), "per-user"), user)

\* the per-user directory of the store: lines 91-100
UserDir(state_dir, user) ==
    join(join(join(IF state_dir # NoPath THEN state_dir ELSE DefaultStateDir,
                   "gcroots"), "per-user"), user)

\* a name of the reverse root without the project id
GlobalName_noId(self) == "shell_gc_root"

\* the name of the reverse root in the per-user directory: line 113
GlobalName(self) == self.project_id \o "-" \o "shell_gc_root"

\* the path of the reverse root: lines 91-113
GlobalPath(self, state_dir, user) == join(UserDir(state_dir, user), GlobalName(self))

(***************************************************************************)
(* State                                                                   *)
(***************************************************************************)
VARIABLES
    fs,          \* the file system: existing path -> node
    env,         \* the environment of the process: USER and NIX_STATE_DIR
    pc,          \* per call: the next system call of create_roots
    self,        \* per call: the Roots value create_roots is called on
    store_path,  \* per call: the store path to root (path.path)
    root,        \* per call: the local PathBuf root
    result,      \* per call: what create_roots returned
    before,      \* per call: the file system, less the store, when the call began
    last,        \* the previous call, whether it returned Ok, and its OutputPath
    answer,      \* what the last call of paths() or all_exist() returned
    registered   \* the project ids that have registered: those that own an entry
                 \* of the per-user directory from earlier runs, and those whose
                 \* reverse root a call has made

vars == <<fs, env, pc, self, store_path, root, result, before, last, answer, registered>>

NoRoots == [gc_root_path |-> NoPath, project_id |-> ""]
NoFs == [p \in {} |-> Dir]
NoCall == [self |-> NoRoots, store_path |-> NoPath, tag |-> "None", out |-> NoPath]
NoAnswer == [op |-> "", out |-> NoPath, value |-> FALSE]
\* the thread that makes the calls that follow one another
MainCall == "A"

\* the file system less the store outputs
Links(f) == [p \in (DOMAIN f) \ Targets |-> f[p]]

\* the entries of a directory
Entries(f, d) == {p \in DOMAIN f : Parent(p) = d}

\* the directories that exist before lorri runs: the project cache
\* directories, the store and the per-user parents of both state directories
BaseDirs ==
    UNION ({Prefixes(r.gc_root_path) : r \in AllRoots}
           \cup {Prefixes(<<"store">>)}
           \cup {Prefixes(Parent(UserDir(d, UserName))) : d \in {NoPath, CustomStateDir}})

\* a file system left by earlier runs: l gives each project's forward link
\* (NoPath: absent), ud tells whether the per-user directory exists and g
\* gives each project's entry in it
InitFs(l, ud, g, sd) ==
    LET locals == {shell_gc_root(r) : r \in {x \in AllRoots : l[x] # NoPath}}
        globals == IF ud
                   THEN {GlobalPath(r, sd, UserName) : r \in {x \in AllRoots : g[x] # NoPath}}
                   ELSE {}
        userdir == IF ud THEN {UserDir(sd, UserName)} ELSE {}
        RootsAt(p) == CHOOSE r \in AllRoots :
                          p \in {shell_gc_root(r), GlobalPath(r, sd, UserName)}
    IN [p \in BaseDirs \cup Targets \cup userdir \cup locals \cup globals |->
            IF p \in locals THEN Link(l[RootsAt(p)])
            ELSE IF p \in globals THEN Link(g[RootsAt(p)])
            ELSE Dir]

Init ==
    \E l \in [AllRoots -> {NoPath} \cup Targets], ud \in BOOLEAN,
       sd \in {NoPath, CustomStateDir} :
      \E g \in {h \in [AllRoots -> {NoPath, Elsewhere} \cup {shell_gc_root(r) : r \in AllRoots}] :
                    \A r \in AllRoots : h[r] \in {NoPath, Elsewhere, shell_gc_root(r)}} :
        /\ ud = FALSE => \A r \in AllRoots : g[r] = NoPath
        /\ fs = InitFs(l, ud, g, sd)
        /\ env = [USER |-> UserName, NIX_STATE_DIR |-> sd]
        /\ registered = {r.project_id : r \in {x \in AllRoots : g[x] # NoPath}}
        /\ pc = [c \in Calls |-> "idle"]
        /\ self = [c \in Calls |-> NoRoots]
        /\ store_path = [c \in Calls |-> NoPath]
        /\ root = [c \in Calls |-> NoPath]
        /\ result = [c \in Calls |-> NoResult]
        /\ before = [c \in Calls |-> NoFs]
        /\ last = NoCall
        /\ answer = NoAnswer

(***************************************************************************)
(* create_roots, one system call per step                                  *)
(***************************************************************************)
\* the call goes on to its next system call
Continue(c, next) ==
    /\ pc' = [pc EXCEPT ![c] = next]
    /\ UNCHANGED result

\* the call returns (or panics) with res
Finish(c, res) ==
    /\ pc' = [pc EXCEPT ![c] = "done"]
    /\ result' = [result EXCEPT ![c] = res]

\* the ? operator: return the error, or go on
Try(c, res, next) ==
    IF res.tag = "None" THEN Continue(c, next) ELSE Finish(c, res)

\* line 66: create_roots is called with a Roots value and a store path
Call(c, r, t, snapshot) ==
    /\ pc[c] = "idle"
    /\ pc' = [pc EXCEPT ![c] = "remove_local"]
    /\ self' = [self EXCEPT ![c] = r]
    /\ store_path' = [store_path EXCEPT ![c] = t]
    /\ before' = [before EXCEPT ![c] = snapshot]
    /\ answer' = NoAnswer
    /\ UNCHANGED <<fs, env, root, result, last, registered>>

\* a call made while no other call is running
BeginSeq(c) ==
    /\ c = MainCall
    /\ \A d \in Calls : pc[d] = "idle"
    /\ \E r \in AllRoots, t \in Targets : Call(c, r, t, Links(fs))

\* a call made whatever the other calls do
BeginConc(c) ==
    \E r \in AllRoots, t \in Targets : Call(c, r, t, NoFs)

\* lines 78-79: remove_file(shell_gc_root) with outcome o
DoRemoveLocal(c, o) ==
    /\ pc[c] = "remove_local"
    /\ fs' = o.fs
    /\ Try(c, IF o.kind = "" THEN NoResult
              ELSE AddRootError_remove(o.kind, shell_gc_root(self[c])),
           "symlink_local")
    /\ UNCHANGED <<answer, env, self, store_path, root, before, last, registered>>

\* line 78 left out: nothing is removed
RemoveLocal_skipped(c) == DoRemoveLocal(c, Outcome("", fs))

RemoveLocal(c) == DoRemoveLocal(c, remove_file(fs, shell_gc_root(self[c])))
FaultRemoveLocal(c) == DoRemoveLocal(c, denied(fs))

\* lines 82-88: symlink(store_path, shell_gc_root) with outcome o
DoSymlinkLocal(c, o) ==
    /\ pc[c] = "symlink_local"
    /\ fs' = o.fs
    /\ Try(c, IF o.kind = "" THEN NoResult
              ELSE AddRootError_symlink(o.kind, store_path[c], shell_gc_root(self[c])),
           "env")
    /\ UNCHANGED <<answer, env, self, store_path, root, before, last, registered>>

\* line 82 with the arguments of symlink in the other order
SymlinkLocal_swapped(c) == DoSymlinkLocal(c, symlink(fs, shell_gc_root(self[c]), store_path[c]))

SymlinkLocal(c) == DoSymlinkLocal(c, symlink(fs, store_path[c], shell_gc_root(self[c])))
FaultSymlinkLocal(c) == DoSymlinkLocal(c, denied(fs))

\* lines 91-100: root = <state dir>/gcroots/per-user/<USER>; panics when
\* USER is not set
ReadEnv(c) ==
    /\ pc[c] = "env"
    /\ IF env.USER = Unset
       THEN /\ Finish(c, PanicResult("env var 'USER' must be set"))
            /\ UNCHANGED root
       ELSE /\ root' = [root EXCEPT ![c] = UserDir(env.NIX_STATE_DIR, env.USER)]
            /\ Continue(c, "is_dir")
    /\ UNCHANGED <<answer, fs, env, self, store_path, before, last, registered>>

\* line 104: if !root.is_dir()
IsDir(c) ==
    /\ pc[c] = "is_dir"
    /\ Continue(c, IF PathIsDir(fs, root[c]) THEN "remove_global" ELSE "create_dir_all")
    /\ UNCHANGED <<answer, fs, env, self, store_path, root, before, last, registered>>

\* lines 105-108: create_dir_all(root) with outcome o
DoCreateDirAll(c, o) ==
    /\ pc[c] = "create_dir_all"
    /\ fs' = o.fs
    /\ Try(c, IF o.kind = "" THEN NoResult
              ELSE ErrResult(o.kind, [op |-> "Failed to recursively create directory",
                                      paths |-> <<root[c]>>]),
           "remove_global")
    /\ UNCHANGED <<answer, env, self, store_path, root, before, last, registered>>

CreateDirAll(c) == DoCreateDirAll(c, create_dir_all(fs, root[c]))
FaultCreateDirAll(c) == DoCreateDirAll(c, denied(fs))

\* a reverse root named after the project and the store output
GlobalEntry_perTarget(c) ==
    join(root[c], self[c].project_id \o "-" \o store_path[c][2])

\* line 113: root.push(format!("{}-{}", self.project_id, "shell_gc_root"))
GlobalEntry(c) == join(root[c], GlobalName(self[c]))

\* lines 113-116: root.push(..); remove_file(root) with outcome o
DoRemoveGlobal(c, o) ==
    /\ pc[c] = "remove_global"
    /\ root' = [root EXCEPT ![c] = GlobalEntry(c)]
    /\ fs' = o.fs
    /\ Try(c, IF o.kind = "" THEN NoResult
              ELSE AddRootError_remove(o.kind, root'[c]),
           "symlink_global")
    /\ UNCHANGED <<answer, env, self, store_path, before, last, registered>>

\* line 116 as a removal of every entry of the per-user directory
RemoveGlobal_wipe(c) ==
    DoRemoveGlobal(c, Outcome("", [p \in (DOMAIN fs) \ Entries(fs, root[c]) |-> fs[p]]))

\* line 116 left out: nothing is removed
RemoveGlobal_skipped(c) == DoRemoveGlobal(c, Outcome("", fs))

RemoveGlobal(c) == DoRemoveGlobal(c, remove_file(fs, GlobalEntry(c)))
FaultRemoveGlobal(c) == DoRemoveGlobal(c, denied(fs))

\* lines 118-125 with a clean-up: when the reverse symlink fails, the
\* forward root is removed again
DoSymlinkGlobal_rollback(c, o) ==
    /\ pc[c] = "symlink_global"
    /\ fs' = IF o.kind = "" THEN o.fs ELSE Without(o.fs, shell_gc_root(self[c]))
    /\ Finish(c, IF o.kind = "" THEN OkResult(shell_gc_root(self[c]))
                 ELSE AddRootError_symlink(o.kind, shell_gc_root(self[c]), root[c]))
    /\ registered' = IF o.kind = "" THEN registered \cup {self[c].project_id}
                     ELSE registered
    /\ UNCHANGED <<answer, env, self, store_path, root, before, last>>

\* lines 118-125: symlink(shell_gc_root, root) with outcome o, then Ok
DoSymlinkGlobal(c, o) ==
    /\ pc[c] = "symlink_global"
    /\ fs' = o.fs
    /\ Finish(c, IF o.kind = "" THEN OkResult(shell_gc_root(self[c]))
                 ELSE AddRootError_symlink(o.kind, shell_gc_root(self[c]), root[c]))
    /\ registered' = IF o.kind = "" THEN registered \cup {self[c].project_id}
                     ELSE registered
    /\ UNCHANGED <<answer, env, self, store_path, root, before, last>>

\* a reverse root that points at the store output instead of the forward root
SymlinkGlobal_toStore(c) == DoSymlinkGlobal(c, symlink(fs, store_path[c], root[c]))

SymlinkGlobal(c) == DoSymlinkGlobal(c, symlink(fs, shell_gc_root(self[c]), root[c]))
FaultSymlinkGlobal(c) == DoSymlinkGlobal(c, denied(fs))

\* the caller takes the result; the call slot is free for the next call
Return(c) ==
    /\ pc[c] = "done"
    /\ last' = [self |-> self[c], store_path |-> store_path[c],
                tag |-> result[c].tag, out |-> result[c].out]
    /\ pc' = [pc EXCEPT ![c] = "idle"]
    /\ self' = [self EXCEPT ![c] = NoRoots]
    /\ store_path' = [store_path EXCEPT ![c] = NoPath]
    /\ root' = [root EXCEPT ![c] = NoPath]
    /\ result' = [result EXCEPT ![c] = NoResult]
    /\ before' = [before EXCEPT ![c] = NoFs]
    /\ UNCHANGED <<answer, fs, env, registered>>

(***************************************************************************)
(* The environment                                                         *)
(***************************************************************************)
\* lorri is started again with USER set or not set
SetUser ==
    /\ \A c \in Calls : pc[c] = "idle"
    /\ env' = [env EXCEPT !.USER = IF env.USER = Unset THEN UserName ELSE Unset]
    /\ UNCHANGED <<answer, fs, pc, self, store_path, root, result, before, last, registered>>

\* lines 59-63: between two calls of create_roots, the caller asks for the
\* paths of a Roots value
PathsCall ==
    /\ \A c \in Calls : pc[c] = "idle"
    /\ \E r \in AllRoots :
          answer' = [op |-> "paths", out |-> paths(r), value |-> FALSE]
    /\ UNCHANGED <<fs, env, pc, self, store_path, root, result, before, last, registered>>

\* lines 34-38: between two calls of create_roots, the caller asks whether
\* the roots of an OutputPath exist
AllExistCall ==
    /\ \A c \in Calls : pc[c] = "idle"
    /\ \E r \in AllRoots :
          answer' = [op |-> "all_exist", out |-> paths(r), value |-> all_exist(fs, paths(r))]
    /\ UNCHANGED <<fs, env, pc, self, store_path, root, result, before, last, registered>>

\* a store output is deleted (by the collector or by hand)
RemoveStorePath ==
    /\ \E t \in Targets : Exists(fs, t) /\ fs' = Without(fs, t)
    /\ UNCHANGED <<answer, env, pc, self, store_path, root, result, before, last, registered>>

Step(c) ==
    \/ RemoveLocal(c)
    \/ SymlinkLocal(c)
    \/ ReadEnv(c)
    \/ IsDir(c)
    \/ CreateDirAll(c)
    \/ RemoveGlobal(c)
    \/ SymlinkGlobal(c)

Fault(c) ==
    \/ FaultRemoveLocal(c)
    \/ FaultSymlinkLocal(c)
    \/ FaultCreateDirAll(c)
    \/ FaultRemoveGlobal(c)
    \/ FaultSymlinkGlobal(c)

\* calls one after the other, with I/O faults and a changing environment
Next ==
    \/ \E c \in Calls : BeginSeq(c)
    \/ \E c \in Calls : Step(c)
    \/ \E c \in Calls : Fault(c)
    \/ \E c \in Calls : Return(c)
    \/ SetUser

Spec == Init /\ [][Next]_vars

\* calls one after the other, while store outputs are deleted and callers
\* query the roots
NextStore ==
    \/ \E c \in Calls : BeginSeq(c)
    \/ \E c \in Calls : Step(c)
    \/ \E c \in Calls : Return(c)
    \/ RemoveStorePath
    \/ PathsCall
    \/ AllExistCall

SpecStore == Init /\ [][NextStore]_vars

\* concurrent calls, without I/O faults
NextConc ==
    \/ \E c \in Calls : BeginConc(c)
    \/ \E c \in Calls : Step(c)

SpecConc == Init /\ [][NextConc]_vars

\* concurrent calls with I/O faults
NextAll ==
    \/ \E c \in Calls : BeginConc(c)
    \/ \E c \in Calls : Step(c)
    \/ \E c \in Calls : Fault(c)

SpecAll == Init /\ [][NextAll]_vars

TypeOK ==
    /\ \A c \in Calls : pc[c] \in {"idle", "remove_local", "symlink_local", "env", "is_dir",
                                     "create_dir_all", "remove_global", "symlink_global", "done"}
    /\ registered \subseteq ProjectIds

(***************************************************************************)
(* Properties                                                              *)
(***************************************************************************)
Local(c) == shell_gc_root(self[c])
\* the reverse root of call c, from the environment of the process
Global(c) == GlobalPath(self[c], env.NIX_STATE_DIR, env.USER)

ReturnedOk(c) == pc[c] = "done" /\ result[c].tag = "Ok"
\* no system call of call c was refused and USER was set
NoFault(c) == result[c].source # "PermissionDenied" /\ env.USER # Unset

\* Registered(target): local -> target and global entry -> local
Registered(f, l, g, t) ==
    /\ Exists(f, l) /\ f[l] = Link(t)
    /\ Exists(f, g) /\ f[g] = Link(l)

\* C1: whatever local and the global entry were before (absent, a link that
\* points elsewhere, a dangling link, already correct), a call of
\* create_roots(target) that returns Ok, with no other call running, leaves
\* local a link to target and the global entry a link to local.
Convergence ==
    \A c \in Calls :
        ReturnedOk(c) => Registered(fs, Local(c), Global(c), store_path[c])

\* a call returned Ok that began with local a link to another store output,
\* which no longer exists (dangling), and the global entry pointing elsewhere
ConvergenceWitness ==
    \E c \in Calls :
        /\ ReturnedOk(c)
        /\ Local(c) \in DOMAIN before[c]
        /\ before[c][Local(c)].to # store_path[c]
        /\ ~Exists(fs, before[c][Local(c)].to)
        /\ Global(c) \in DOMAIN before[c]
        /\ before[c][Global(c)] = Link(Elsewhere)

\* the entries of the per-user directory that point at the forward root l
EntriesOf(f, d, l) == {p \in Entries(f, d) : f[p] = Link(l)}

\* C2: after successful calls that follow one another, local points at the
\* target of the last call, exactly one entry of the per-user directory
\* belongs to (points at the forward root of) the project, and the
\* directory never holds more entries than project ids have registered.
NoAccumulation ==
    /\ \A c \in Calls :
          ReturnedOk(c) =>
              /\ Exists(fs, Local(c)) /\ fs[Local(c)].to = store_path[c]
              /\ Cardinality(EntriesOf(fs, Parent(Global(c)), Local(c))) = 1
    /\ Cardinality(Entries(fs, UserDir(env.NIX_STATE_DIR, UserName)))
          <= Cardinality(registered)

\* the second of two successful calls for one project with different targets
NoAccumulationWitness ==
    \E c \in Calls :
        /\ ReturnedOk(c)
        /\ last.tag = "Ok"
        /\ last.self = self[c]
        /\ last.store_path # store_path[c]

\* C3: a second call with the same Roots value and the same target, right
\* after a call that returned Ok and without an I/O fault, returns Ok with
\* the same OutputPath, and leaves local and the global entry (all of the
\* file system outside the store) as the first call left them.
Idempotence ==
    \A c \in Calls :
        (/\ pc[c] = "done"
         /\ last.tag = "Ok"
         /\ last.self = self[c]
         /\ last.store_path = store_path[c]
         /\ NoFault(c))
        => /\ result[c].tag = "Ok"
           /\ result[c].out = last.out
           /\ Links(fs) = before[c]

\* the second of two successful calls with the same Roots value and target
IdempotenceWitness ==
    \E c \in Calls :
        /\ ReturnedOk(c)
        /\ last.tag = "Ok"
        /\ last.self = self[c]
        /\ last.store_path = store_path[c]

\* C4: all_exist() on the value of paths() is false while local is absent
\* (before any registration); on the value a successful create_roots
\* returned it is true while the target exists and false once the target
\* is removed and local dangles.
ExistenceSemantics ==
    /\ \A r \in AllRoots :
          ~Exists(fs, shell_gc_root(r)) => ~all_exist(fs, paths(r))
    /\ \A c \in Calls :
          ReturnedOk(c) => (all_exist(fs, result[c].out) <=> Exists(fs, store_path[c]))

\* a call returned Ok, its target has been removed since, local dangles
ExistenceSemanticsWitness ==
    \E c \in Calls :
        /\ ReturnedOk(c)
        /\ fs[Local(c)] = Link(store_path[c])
        /\ ~Exists(fs, store_path[c])

\* C5: when USER is not set, create_roots aborts with the file system
\* (local, the per-user directory, the global entry) as it was before the
\* call.
EnvironmentMissingMutatesNothing ==
    \A c \in Calls :
        (pc[c] = "done" /\ result[c].tag = "Panic") => Links(fs) = before[c]

\* what one step leaves of path p: present or not, and its node
Same(p) == (Exists(fs, p) <=> Exists(fs', p)) /\ (Exists(fs, p) => fs'[p] = fs[p])

\* call c has made its forward / its reverse link
PastForward(c) ==
    pc[c] \in {"env", "is_dir", "create_dir_all", "remove_global", "symlink_global"}
    \/ ReturnedOk(c)
    \/ (pc[c] = "done" /\ result[c].msg.paths # <<>>
                       /\ result[c].msg.paths[Len(result[c].msg.paths)] # Local(c))

\* C6: two concurrent calls for Roots values with distinct project_id and
\* distinct gc_root_path, without I/O fault: under every interleaving of
\* their system calls each call returns Ok with its local pointing at its
\* own target and its global entry pointing at its own local, and no step
\* of a call changes the local or the global entry of another project.
NoCollision ==
    /\ [](\A c \in Calls :
            (/\ pc[c] = "done"
             /\ \A d \in Calls \ {c} :
                    /\ self[d].project_id # self[c].project_id
                    /\ self[d].gc_root_path # self[c].gc_root_path)
            => /\ result[c].tag = "Ok"
               /\ Registered(fs, Local(c), Global(c), store_path[c]))
    /\ [][\A c \in Calls :
             (pc[c] # "idle" /\ pc'[c] # pc[c]) =>
                 \A r \in AllRoots :
                     (r.project_id # self[c].project_id
                      /\ r.gc_root_path # self[c].gc_root_path)
                     => /\ Same(shell_gc_root(r))
                        /\ Same(GlobalPath(r, env.NIX_STATE_DIR, env.USER))]_vars

\* both calls have returned, they were for different projects, and the
\* per-user directory holds the entries of both
NoCollisionWitness ==
    /\ \A c \in Calls : ReturnedOk(c)
    /\ \E c, d \in Calls :
          /\ self[c].project_id # self[d].project_id
          /\ self[c].gc_root_path # self[d].gc_root_path
          /\ Cardinality(Entries(fs, Parent(Global(c)))) = 2

\* C7: two concurrent calls for the same project with different targets can
\* reach a state where a call has made its forward link and yet local is
\* absent or points at the other call's target, or where a call has
\* returned Ok and its global entry is absent; such a state arises only
\* when another call for the same project has run its removal.
UnsafeOnlySameProject ==
    \A c \in Calls :
        /\ (PastForward(c) /\ ~(Exists(fs, Local(c)) /\ fs[Local(c)] = Link(store_path[c])))
           => \E d \in Calls \ {c} :
                  self[d] = self[c] /\ pc[d] \notin {"idle", "remove_local"}
        /\ (ReturnedOk(c) /\ ~(Exists(fs, Global(c)) /\ fs[Global(c)] = Link(Local(c))))
           => \E d \in Calls \ {c} :
                  self[d] = self[c] /\ pc[d] \in {"symlink_global", "done"}

\* call c has made its forward link and local points at the target of the
\* other call for the same project, whose own reverse link is still missing
SameProjectUnsafe ==
    \E c \in Calls : \E d \in Calls \ {c} :
        /\ self[d] = self[c]
        /\ store_path[d] # store_path[c]
        /\ PastForward(c)
        /\ Exists(fs, Local(c))
        /\ fs[Local(c)] = Link(store_path[d])
        /\ pc[d] = "symlink_global"
        /\ ~Exists(fs, root[d])

\* the path a removal step of call c removes
RemovedPath(c) == IF pc[c] = "remove_local" THEN Local(c) ELSE GlobalEntry(c)

\* C8: when the removal of an existing entry at local (step 1) or at the
\* global path (step 6) fails, create_roots returns an AddRootError that
\* names that path, the entry is left as it was, and no later step runs:
\* the call ends there, and nothing it had not changed before is changed.
RemovalFailurePropagation ==
    /\ [][\A c \in Calls :
             (/\ pc[c] \in {"remove_local", "remove_global"}
              /\ pc'[c] # pc[c]
              /\ Exists(fs, RemovedPath(c))
              /\ Exists(fs', RemovedPath(c)))
             => /\ pc'[c] = "done"
                /\ result'[c].tag = "Err"
                /\ result'[c].msg = [op |-> "Failed to delete", paths |-> <<RemovedPath(c)>>]
                /\ fs' = fs]_vars
    /\ [](\A c \in Calls :
            (pc[c] = "done" /\ result[c].msg.op = "Failed to delete") =>
                /\ result[c].msg.paths = <<Local(c)>> => Links(fs) = before[c]
                /\ result[c].msg.paths = <<Global(c)>> =>
                       /\ Exists(fs, Global(c)) <=> Global(c) \in DOMAIN before[c]
                       /\ Exists(fs, Global(c)) => fs[Global(c)] = before[c][Global(c)])

\* a call has returned the error of a failed removal of the existing global
\* entry
RemovalFailureWitness ==
    \E c \in Calls :
        /\ pc[c] = "done"
        /\ result[c].tag = "Err"
        /\ result[c].msg = [op |-> "Failed to delete", paths |-> <<Global(c)>>]
        /\ Exists(fs, Global(c))

\* C9: a removal of a path that does not exist is a success: no
\* AddRootError comes from a NotFound, and create_roots called while both
\* local and the global entry are absent returns Ok (no I/O fault).
AbsenceTolerance ==
    \A c \in Calls :
        /\ (pc[c] = "done" /\ result[c].msg.op = "Failed to delete")
           => result[c].source # "NotFound"
        /\ (/\ pc[c] = "done"
            /\ Local(c) \notin DOMAIN before[c]
            /\ Global(c) \notin DOMAIN before[c]
            /\ NoFault(c))
           => result[c].tag = "Ok"

\* a call returned Ok that began with local, the per-user directory and the
\* global entry all absent
AbsenceToleranceWitness ==
    \E c \in Calls :
        /\ ReturnedOk(c)
        /\ Local(c) \notin DOMAIN before[c]
        /\ Parent(Global(c)) \notin DOMAIN before[c]
        /\ Global(c) \notin DOMAIN before[c]

\* C10: a call made after a call that failed or panicked, with the fault
\* cleared (no system call refused, USER set), returns Ok and leaves local
\* pointing at its target and the global entry pointing at local.
Retryable ==
    \A c \in Calls :
        (/\ pc[c] = "done"
         /\ last.tag \in {"Err", "Panic"}
         /\ NoFault(c))
        => /\ result[c].tag = "Ok"
           /\ Registered(fs, Local(c), Global(c), store_path[c])

\* a call returned Ok after a failed call for the same project that had
\* left local absent and the global entry in place
RetryableWitness ==
    \E c \in Calls :
        /\ ReturnedOk(c)
        /\ last.tag = "Err"
        /\ last.self = self[c]
        /\ Local(c) \notin DOMAIN before[c]
        /\ Global(c) \in DOMAIN before[c]

\* <base>/gcroots/per-user/<user>/<project_id>-shell_gc_root, spelled out
ExpectedGlobal(c) ==
    (IF env.NIX_STATE_DIR # NoPath THEN env.NIX_STATE_DIR ELSE <<"nix", "var", "nix">>)
    \o <<"gcroots", "per-user", env.USER, self[c].project_id \o "-shell_gc_root">>

UnderDefault(p) == Len(p) >= 3 /\ SubSeq(p, 1, 3) = <<"nix", "var", "nix">>

\* C11: a call that returns Ok has made its reverse link at exactly
\* <base>/gcroots/per-user/<user>/<project_id>-shell_gc_root, where <base>
\* is NIX_STATE_DIR when it is set and /nix/var/nix otherwise, whatever the
\* target; while NIX_STATE_DIR is set no step creates, removes or changes
\* anything under /nix/var/nix.
DeterministicLocation ==
    [][/\ \A c \in Calls :
            (pc[c] = "symlink_global" /\ pc'[c] = "done" /\ result'[c].tag = "Ok")
            => /\ ~Exists(fs, ExpectedGlobal(c))
               /\ DOMAIN fs' = (DOMAIN fs) \cup {ExpectedGlobal(c)}
               /\ fs'[ExpectedGlobal(c)].kind = "link"
               /\ \A p \in DOMAIN fs : fs'[p] = fs[p]
        /\ (env.NIX_STATE_DIR # NoPath
            => (\A p \in (DOMAIN fs) \cup (DOMAIN fs') : (UnderDefault(p) => Same(p))))]_vars

\* with NIX_STATE_DIR = /custom/state, a call for project ab12 returned Ok
\* and its reverse link, absent before, is under /custom/state
DeterministicLocationWitness ==
    \E c \in Calls :
        /\ ReturnedOk(c)
        /\ self[c].project_id = "ab12"
        /\ env.NIX_STATE_DIR = <<"custom", "state">>
        /\ <<"custom", "state", "gcroots", "per-user", "u", "ab12-shell_gc_root">>
              \notin DOMAIN before[c]
        /\ Exists(fs, <<"custom", "state", "gcroots", "per-user", "u", "ab12-shell_gc_root">>)

\* p is an entry of a per-user directory
IsGlobalEntry(p) == Len(p) > 2 /\ p[Len(p) - 2] = "per-user"

\* C12: no step of a call for project P, whether the call succeeds or
\* fails, removes or changes an entry of the per-user directory other than
\* <P.project_id>-shell_gc_root, nor the local link of another project.
FrameOnGlobalDirectory ==
    [][\A c \in Calls :
         (pc[c] # "idle" /\ pc'[c] # pc[c]) =>
             /\ \A p \in (DOMAIN fs) \cup (DOMAIN fs') :
                    (IsGlobalEntry(p) /\ p[Len(p)] # self[c].project_id \o "-shell_gc_root")
                    => Same(p)
             /\ \A r \in AllRoots : r # self[c] => Same(shell_gc_root(r))]_vars

\* a call failed at its reverse link after it had removed its own entry;
\* the entry of the other project is still there
FrameOnGlobalDirectoryWitness ==
    \E c \in Calls :
        /\ pc[c] = "done"
        /\ result[c].tag = "Err"
        /\ Global(c) \in DOMAIN before[c]
        /\ ~Exists(fs, Global(c))
        /\ \E r \in AllRoots \ {self[c]} :
              /\ Exists(fs, GlobalPath(r, env.NIX_STATE_DIR, env.USER))
              /\ Exists(fs, shell_gc_root(r))

\* C13: every call that returns Ok returns OutputPath{RootPath(local)} with
\* local = gc_root_path/shell_gc_root, the value paths() returns for the
\* same Roots, whatever the target and the earlier file system; paths()
\* returns that value in every state and changes nothing of the file system.
ReturnValue ==
    /\ [](\A c \in Calls :
            ReturnedOk(c) =>
                /\ result[c].out = self[c].gc_root_path \o <<"shell_gc_root">>
                /\ result[c].out = paths(self[c]))
    /\ [][(answer' # answer /\ answer'.op = "paths") =>
             /\ \E r \in AllRoots : answer'.out = r.gc_root_path \o <<"shell_gc_root">>
             /\ fs' = fs]_vars

\* paths() is asked after a call for the same Roots returned Ok, and both
\* gave the same path
ReturnValueWitness ==
    /\ answer.op = "paths"
    /\ last.tag = "Ok"
    /\ answer.out = last.out
    /\ answer.out = last.self.gc_root_path \o <<"shell_gc_root">>

\* C14: replacement is not atomic: a call that has removed local and not
\* yet made it again finds local absent, and the global entry, though it
\* may still point at local, roots no store output; a call that has
\* removed the global entry and not yet made it again finds it absent.
NonAtomicWindow ==
    \A c \in Calls :
        /\ pc[c] = "symlink_local" =>
              /\ ~Exists(fs, Local(c))
              /\ Resolve(fs, Global(c), MaxHops) \notin Targets
        /\ pc[c] = "symlink_global" =>
              /\ root[c] = Global(c)
              /\ ~Exists(fs, Global(c))

\* a call create_roots(new) that began in Registered(old) is between steps
\* 1 and 2: local is absent and the global entry still points at local
NonAtomicWindowWitness ==
    \E c \in Calls : \E old \in Targets \ {store_path[c]} :
        /\ pc[c] = "symlink_local"
        /\ Registered(before[c], Local(c), Global(c), old)
        /\ ~Exists(fs, Local(c))
        /\ Exists(fs, Global(c)) /\ fs[Global(c)] = Link(Local(c))

\* the same call between steps 6 and 7: the global entry is absent
GlobalWindow ==
    \E c \in Calls : \E old \in Targets \ {store_path[c]} :
        /\ pc[c] = "symlink_global"
        /\ Registered(before[c], Local(c), Global(c), old)
        /\ fs[Local(c)] = Link(store_path[c])
        /\ ~Exists(fs, Global(c))

\* C15: all_exist() is true iff local is present and what it points at is
\* present; the global entry has no part in it, and the call changes
\* nothing of the file system.
AllExistMeaning ==
    /\ [](\A r \in AllRoots :
            LET l == r.gc_root_path \o <<"shell_gc_root">> IN
            /\ all_exist(fs, paths(r)) <=>
                   (Exists(fs, l) /\ (fs[l].kind = "link" => Exists(fs, fs[l].to)))
            /\ \A g \in DOMAIN fs :
                   IsGlobalEntry(g) =>
                       (all_exist(Without(fs, g), paths(r)) <=> all_exist(fs, paths(r))))
    /\ [][(answer' # answer /\ answer'.op = "all_exist") =>
             /\ fs' = fs
             /\ answer'.value <=>
                    (Exists(fs, answer'.out) /\ Exists(fs, fs[answer'.out].to))]_vars

\* all_exist() answered true for a project whose global entry is absent
AllExistMeaningWitness ==
    \E r \in AllRoots :
        /\ answer = [op |-> "all_exist", out |-> paths(r), value |-> TRUE]
        /\ Exists(fs, shell_gc_root(r))
        /\ ~Exists(fs, GlobalPath(r, env.NIX_STATE_DIR, UserName))

\* C16: once two concurrent calls for the same project (no I/O fault) have
\* both finished, whatever the interleaving: at least one returned Ok,
\* local is present and points at the target of one of them, the global
\* entry is present and points at local, and a call that returned an error
\* returned that of a symlink whose destination already existed.
QuiescentConsistency ==
    \A c \in Calls : \A d \in Calls \ {c} :
        (pc[c] = "done" /\ pc[d] = "done" /\ self[c] = self[d]) =>
            /\ result[c].tag = "Ok" \/ result[d].tag = "Ok"
            /\ Exists(fs, Local(c))
            /\ fs[Local(c)] \in {Link(store_path[c]), Link(store_path[d])}
            /\ Exists(fs, Global(c))
            /\ fs[Global(c)] = Link(Local(c))
            /\ result[c].tag \in {"Ok", "Err"}
            /\ result[c].tag = "Err" =>
                   /\ result[c].source = "AlreadyExists"
                   /\ result[c].msg.op = "Failed to symlink"

\* both calls for one project have finished, with different targets; one
\* returned Ok and the other the error of a symlink onto an existing path,
\* and local points at the target of the call that failed
QuiescentConsistencyWitness ==
    \E c \in Calls : \E d \in Calls \ {c} :
        /\ pc[c] = "done" /\ pc[d] = "done"
        /\ self[c] = self[d]
        /\ store_path[c] # store_path[d]
        /\ result[c].tag = "Ok"
        /\ result[d].tag = "Err"
        /\ fs[Local(c)] = Link(store_path[d])

\* the error of call c when step k fails
FailedAt(c, k) ==
    /\ pc[c] = "done"
    /\ result[c].tag = "Err"
    /\ result[c].msg =
          CASE k = 1 -> [op |-> "Failed to delete", paths |-> <<Local(c)>>]
            [] k = 2 -> [op |-> "Failed to symlink", paths |-> <<store_path[c], Local(c)>>]
            [] k = 4 -> [op |-> "Failed to recursively create directory",
                         paths |-> <<Parent(Global(c))>>]
            [] k = 6 -> [op |-> "Failed to delete", paths |-> <<Global(c)>>]
            [] k = 7 -> [op |-> "Failed to symlink", paths |-> <<Local(c), Global(c)>>]

\* path p is in file system g what it is in file system f
Kept(f, g, p) == (Exists(f, p) <=> Exists(g, p)) /\ (Exists(f, p) => g[p] = f[p])

\* C17: nothing is rolled back: a call that fails at step k leaves what
\* steps 1..k-1 did.  After a failed forward symlink (step 2) local is
\* absent; after a failure at step 4, 6 or 7 local points at the new target,
\* and the global entry is as it was before the call (steps 4 and 6) or
\* absent (step 7).
NoRollback ==
    \A c \in Calls :
        (pc[c] = "done" /\ result[c].tag = "Err") =>
            /\ \E k \in {1, 2, 4, 6, 7} : FailedAt(c, k)
            /\ FailedAt(c, 2) =>
                   /\ ~Exists(fs, Local(c))
                   /\ Links(fs) = Without(before[c], Local(c))
            /\ (FailedAt(c, 4) \/ FailedAt(c, 6) \/ FailedAt(c, 7)) =>
                   /\ Exists(fs, Local(c))
                   /\ fs[Local(c)] = Link(store_path[c])
            /\ (FailedAt(c, 4) \/ FailedAt(c, 6)) =>
                   Kept(before[c], fs, Global(c))
            /\ FailedAt(c, 4) => ~Exists(fs, Parent(Global(c)))
            /\ FailedAt(c, 7) => ~Exists(fs, Global(c))

\* a call that began in Registered(old) failed at its reverse symlink: local
\* points at the new target and the global entry is gone
NoRollbackWitness ==
    \E c \in Calls : \E old \in Targets \ {store_path[c]} :
        /\ FailedAt(c, 7)
        /\ Registered(before[c], Local(c), Global(c), old)
        /\ fs[Local(c)] = Link(store_path[c])
        /\ ~Exists(fs, Global(c))

\* the project whose reverse root the per-user entry p is
OwnerOf(p) == {r \in AllRoots : p[Len(p)] = r.project_id \o "-shell_gc_root"}

\* C18: in every state, intermediate states of calls, states after failed
\* calls and states under interleavings of concurrent calls included, an
\* entry <project_id>-shell_gc_root that create_roots has written is a
\* link to that project's local: every step that makes or changes an
\* entry of a per-user directory makes it that link, and no entry ever
\* points at a store output.
ReverseLinkTarget ==
    /\ [](\A p \in DOMAIN fs : IsGlobalEntry(p) => fs[p].to \notin Targets)
    /\ [][\A p \in DOMAIN fs' :
             (IsGlobalEntry(p) /\ (~Exists(fs, p) \/ fs[p] # fs'[p])) =>
                 \E r \in OwnerOf(p) :
                     fs'[p] = Link(r.gc_root_path \o <<"shell_gc_root">>)]_vars

\* two calls for one project with different targets have finished, one of
\* them refused by the operating system; the entry points at local, which
\* points at the target of the other
ReverseLinkTargetWitness ==
    \E c \in Calls : \E d \in Calls \ {c} :
        /\ pc[c] = "done" /\ pc[d] = "done"
        /\ self[c] = self[d]
        /\ store_path[c] # store_path[d]
        /\ result[c].tag = "Err" /\ result[c].source = "PermissionDenied"
        /\ result[d].tag = "Ok"
        /\ Exists(fs, Global(d)) /\ fs[Global(d)] = Link(Local(d))
        /\ fs[Local(d)] = Link(store_path[d])

\* C19: no step of create_roots and no call of paths() or all_exist()
\* removes or changes a store output; the removal of step 1 removes at
\* most the link at local, never what it pointed at, so a superseded
\* target stays as it was.
StoreUntouched ==
    [][/\ ((\E c \in Calls : pc'[c] # pc[c]) \/ answer' # answer) =>
            \A t \in Targets : Same(t)
        /\ \A c \in Calls :
            (pc[c] = "remove_local" /\ pc'[c] # pc[c]) =>
                (DOMAIN fs) \ (DOMAIN fs') \subseteq {Local(c)}]_vars

\* a call returned Ok that replaced the link to an older target, and the
\* older target still exists
StoreUntouchedWitness ==
    \E c \in Calls : \E old \in Targets \ {store_path[c]} :
        /\ ReturnedOk(c)
        /\ Local(c) \in DOMAIN before[c]
        /\ before[c][Local(c)] = Link(old)
        /\ fs[Local(c)] = Link(store_path[c])
        /\ Exists(fs, old)

====
